---- MODULE Spec2Model ----
(***************************************************************************)
(* gorilla/i18n, package linebreak: the pair table, the default class      *)
(* resolver and the forward Scanner (linebreak.go), as a state machine.    *)
(* A code point is represented by what the package reads of it: its raw    *)
(* line breaking class Class(r) and whether it is a Unicode Mn/Mc mark.    *)
(***************************************************************************)
EXTENDS Integers, Sequences, FiniteSets, TLC

(* ------------------------------ bounds -------------------------------- *)
\* longest input over the core code points
MaxLen == 4
\* longest input over the code points of every class
MaxShort == 2
\* calls of Next made after the first end of input
MaxExtra == 2
\* rows, and entries of a row, of the tailored tables handed to PairTable.Action
MaxDim == 2
\* longest input of each of two scanners that run interleaved
MaxPair == 2
\* most messages of a MO file
MaxMsgs == 2
\* longest input of a scanner whose table and resolver the caller supplied
MaxText == 3

(* --------------------------- BreakAction ------------------------------ *)
BreakDirect == 0
BreakIndirect == 1
BreakCombiningIndirect == 2
BreakCombiningProhibited == 3
BreakProhibited == 4
BreakMandatory == 5
BreakActions == BreakDirect..BreakMandatory

\* pair table shortcuts
di == BreakDirect
in == BreakIndirect
ci == BreakCombiningIndirect
cp == BreakCombiningProhibited
pr == BreakProhibited
ex == BreakMandatory

(* ---------------------------- BreakClass ------------------------------ *)
ClassOP == 0
ClassCL == 1
ClassCP == 2
ClassQU == 3
ClassGL == 4
ClassNS == 5
ClassEX == 6
ClassSY == 7
ClassIS == 8
ClassPR == 9
ClassPO == 10
ClassNU == 11
ClassAL == 12
ClassHL == 13
ClassID == 14
ClassIN == 15
ClassHY == 16
ClassBA == 17
ClassBB == 18
ClassB2 == 19
ClassZW == 20
ClassCM == 21
ClassWJ == 22
ClassH2 == 23
ClassH3 == 24
ClassJL == 25
ClassJV == 26
ClassJT == 27
ClassRI == 28
ClassBK == 29
ClassCR == 30
ClassLF == 31
ClassNL == 32
ClassSG == 33
ClassSP == 34
ClassCB == 35
ClassAI == 36
ClassCJ == 37
ClassSA == 38
ClassXX == 39
Classes == ClassOP..ClassXX
pairTableSize == 29

\* error values
NIL == "nil"
EOF == "EOF"

(* ---------------------------- PairTable ------------------------------- *)
\* Go slices are 0-based, sequences 1-based: t[before][after] is t[before+1][after+1]
\* mutant: the fallback is the zero action
ActionZero(t, before, after) ==
    IF before < Len(t) /\ after < Len(t[before + 1])
    THEN t[before + 1][after + 1]
    ELSE BreakDirect

Action(t, before, after) ==
    IF before < Len(t) /\ after < Len(t[before + 1])
    THEN t[before + 1][after + 1]
    ELSE BreakProhibited

pairTable ==
  << \* after: OP CL CP QU GL NS EX SY IS PR PO NU AL HL ID IN HY BA BB B2 ZW CM WJ H2 H3 JL JV JT RI
     <<pr, pr, pr, pr, pr, pr, pr, pr, pr, pr, pr, pr, pr, pr, pr, pr, pr, pr, pr, pr, pr, cp, pr, pr, pr, pr, pr, pr, pr>>,  \* OP
     <<di, pr, pr, in, in, pr, pr, pr, pr, in, in, di, di, di, di, di, in, in, di, di, pr, ci, pr, di, di, di, di, di, di>>,  \* CL
     <<di, pr, pr, in, in, pr, pr, pr, pr, in, in, in, in, in, di, di, in, in, di, di, pr, ci, pr, di, di, di, di, di, di>>,  \* CP
     <<pr, pr, pr, in, in, in, pr, pr, pr, in, in, in, in, in, in, in, in, in, in, in, pr, ci, pr, in, in, in, in, in, in>>,  \* QU
     <<in, pr, pr, in, in, in, pr, pr, pr, in, in, in, in, in, in, in, in, in, in, in, pr, ci, pr, in, in, in, in, in, in>>,  \* GL
     <<di, pr, pr, in, in, in, pr, pr, pr, di, di, di, di, di, di, di, in, in, di, di, pr, ci, pr, di, di, di, di, di, di>>,  \* NS
     <<di, pr, pr, in, in, in, pr, pr, pr, di, di, di, di, di, di, di, in, in, di, di, pr, ci, pr, di, di, di, di, di, di>>,  \* EX
     <<di, pr, pr, in, in, in, pr, pr, pr, di, di, in, di, di, di, di, in, in, di, di, pr, ci, pr, di, di, di, di, di, di>>,  \* SY
     <<di, pr, pr, in, in, in, pr, pr, pr, di, di, in, in, in, di, di, in, in, di, di, pr, ci, pr, di, di, di, di, di, di>>,  \* IS
     <<in, pr, pr, in, in, in, pr, pr, pr, di, di, in, in, in, in, di, in, in, di, di, pr, ci, pr, in, in, in, in, in, di>>,  \* PR
     <<in, pr, pr, in, in, in, pr, pr, pr, di, di, in, in, in, di, di, in, in, di, di, pr, ci, pr, di, di, di, di, di, di>>,  \* PO
     <<in, pr, pr, in, in, in, pr, pr, pr, in, in, in, in, in, di, in, in, in, di, di, pr, ci, pr, di, di, di, di, di, di>>,  \* NU
     <<in, pr, pr, in, in, in, pr, pr, pr, di, di, in, in, in, di, in, in, in, di, di, pr, ci, pr, di, di, di, di, di, di>>,  \* AL
     <<in, pr, pr, in, in, in, pr, pr, pr, di, di, in, in, in, di, in, in, in, di, di, pr, ci, pr, di, di, di, di, di, di>>,  \* HL
     <<di, pr, pr, in, in, in, pr, pr, pr, di, in, di, di, di, di, in, in, in, di, di, pr, ci, pr, di, di, di, di, di, di>>,  \* ID
     <<di, pr, pr, in, in, in, pr, pr, pr, di, di, di, di, di, di, in, in, in, di, di, pr, ci, pr, di, di, di, di, di, di>>,  \* IN
     <<di, pr, pr, in, di, in, pr, pr, pr, di, di, in, di, di, di, di, in, in, di, di, pr, ci, pr, di, di, di, di, di, di>>,  \* HY
     <<di, pr, pr, in, di, in, pr, pr, pr, di, di, di, di, di, di, di, in, in, di, di, pr, ci, pr, di, di, di, di, di, di>>,  \* BA
     <<in, pr, pr, in, in, in, pr, pr, pr, in, in, in, in, in, in, in, in, in, in, in, pr, ci, pr, in, in, in, in, in, in>>,  \* BB
     <<di, pr, pr, in, in, in, pr, pr, pr, di, di, di, di, di, di, di, in, in, di, pr, pr, ci, pr, di, di, di, di, di, di>>,  \* B2
     <<di, di, di, di, di, di, di, di, di, di, di, di, di, di, di, di, di, di, di, di, pr, di, di, di, di, di, di, di, di>>,  \* ZW
     <<in, pr, pr, in, in, in, pr, pr, pr, di, di, in, in, in, di, in, in, in, di, di, pr, ci, pr, di, di, di, di, di, di>>,  \* CM
     <<in, pr, pr, in, in, in, pr, pr, pr, in, in, in, in, in, in, in, in, in, in, in, pr, ci, pr, in, in, in, in, in, in>>,  \* WJ
     <<di, pr, pr, in, in, in, pr, pr, pr, di, in, di, di, di, di, in, in, in, di, di, pr, ci, pr, di, di, di, in, in, di>>,  \* H2
     <<di, pr, pr, in, in, in, pr, pr, pr, di, in, di, di, di, di, in, in, in, di, di, pr, ci, pr, di, di, di, di, in, di>>,  \* H3
     <<di, pr, pr, in, in, in, pr, pr, pr, di, in, di, di, di, di, in, in, in, di, di, pr, ci, pr, in, in, in, in, di, di>>,  \* JL
     <<di, pr, pr, in, in, in, pr, pr, pr, di, in, di, di, di, di, in, in, in, di, di, pr, ci, pr, di, di, di, in, in, di>>,  \* JV
     <<di, pr, pr, in, in, in, pr, pr, pr, di, in, di, di, di, di, in, in, in, di, di, pr, ci, pr, di, di, di, di, in, di>>,  \* JT
     <<di, pr, pr, in, in, in, pr, pr, pr, di, di, di, di, di, di, di, in, in, di, di, pr, ci, pr, di, di, di, di, di, in>>   \* RI
  >>

\* the value of a Table field: the default table, held by name, or a
\* caller's table, held by its rows
DefaultTable == [name |-> "pairTable", rows |-> <<>>]
Tailored(t) == [name |-> "tailored", rows |-> t]
Rows(T) == IF T.name = "pairTable" THEN pairTable ELSE T.rows

(* --------------------------- ClassResolver ---------------------------- *)
\* a code point: its raw class and unicode.Is(Mn, r) || unicode.Is(Mc, r)
Rune(c, m) == [cls |-> c, mark |-> m]
Class(r) == r.cls
IsMark(r) == r.mark

\* mutant: the Mn/Mc test of SA is missing
classResolverNoMark(r) ==
    LET cls == Class(r) IN
    CASE cls \in {ClassAI, ClassSG, ClassXX} -> ClassAL
      [] cls = ClassCJ -> ClassNS
      [] cls = ClassSA -> ClassAL
      [] cls = ClassCB -> ClassID
      [] OTHER -> cls

\* mutant: CB is not resolved
classResolverNoCB(r) ==
    LET cls == Class(r) IN
    CASE cls \in {ClassAI, ClassSG, ClassXX} -> ClassAL
      [] cls = ClassCJ -> ClassNS
      [] cls = ClassSA -> IF IsMark(r) THEN ClassCM ELSE ClassAL
      [] OTHER -> cls

\* LB1
classResolver(r) ==
    LET cls == Class(r) IN
    CASE cls \in {ClassAI, ClassSG, ClassXX} -> ClassAL
      [] cls = ClassCJ -> ClassNS
      [] cls = ClassSA -> IF IsMark(r) THEN ClassCM ELSE ClassAL
      [] cls = ClassCB -> ClassID
      [] OTHER -> cls

\* s.Resolver(r): the default resolver, or a caller's resolver that does no LB1
Resolvers == {"classResolver", "Class"}
Resolve(name, r) == IF name = "classResolver" THEN classResolver(r) ELSE Class(r)

(* ------------------------------ Scanner ------------------------------- *)
VARIABLES Resolver, Table, runes, pos, prevClass, err,
          ret, branch, calls, nils, actions, lookup,
          resolved, other

\* package gettext: the MO stream read, a moReader on it and what it has
\* returned, a Catalog, a catalogIterator on it and what it has returned,
\* the bytes WriteMo wrote, the Catalog read back from them, and the last
\* result of ReadMo or Singular on the catalog
VARIABLES stream, reader, read, catalog, iterator, iterated,
          written, catalog2, answer

scannerVars == <<Resolver, Table, runes, pos, prevClass, err,
                 ret, branch, calls, nils, actions, lookup,
                 resolved, other>>

gettextVars == <<stream, reader, read, catalog, iterator, iterated,
                 written, catalog2, answer>>

vars == <<scannerVars, gettextVars>>

(* ------------------- gettext: values before any call ------------------ *)
\* a []byte: nil, or the bytes it holds
NilSlice == [nil |-> TRUE, b |-> <<>>]
Slice(b) == [nil |-> FALSE, b |-> b]

\* a Message returned with an error: the nil *Message
NoMessage == [nil |-> TRUE]

\* &moReader{reader: r}: no header parsed, position 0, no error
ReadMo(r) ==
    [offset |-> 0, order |-> "none",
     header |-> [nil |-> TRUE, MsgCount |-> 0, IdTableOffset |-> 0, StrTableOffset |-> 0],
     pos |-> 0, err |-> NIL]

\* a map without keys
EmptyMap == [k \in {} |-> <<>>]

\* &Catalog{msgs: map[string]*Message{}}: nil Header, no message, nil keys
NewCatalog == [Header |-> [nil |-> TRUE, h |-> EmptyMap], msgs |-> EmptyMap, keys |-> <<>>]

\* no catalogIterator yet, and the one Iter returns
NoIterator == [on |-> FALSE, pos |-> 0]
catalogIterator == [on |-> TRUE, pos |-> 0]

\* what a caller has got from an iterator: the last result of Size (-1
\* before its first call), the messages received and the last result of Next
NothingRead ==
    [size |-> -1, msgs |-> <<>>, ret |-> [msg |-> NoMessage, err |-> NIL]]

\* what the caller of Iter has got: the keys of the catalog when Iter
\* returned, and the results of Size and Next as for a moReader
NothingIterated ==
    [keys |-> <<>>, size |-> -1, msgs |-> <<>>, ret |-> [msg |-> NoMessage, err |-> NIL]]

\* nothing written yet
NoFile == [nil |-> TRUE, b |-> <<>>]

\* no catalog read back yet
NoCatalog2 == [nil |-> TRUE, c |-> NewCatalog, err |-> NIL]

\* no method of the catalog called yet
NoCall == [call |-> "none", key |-> <<>>, text |-> <<>>, err |-> NIL]

\* package gettext is not used
NoGettext ==
    /\ stream = <<>>
    /\ reader = ReadMo(stream)
    /\ read = NothingRead
    /\ catalog = NewCatalog
    /\ iterator = NoIterator
    /\ iterated = NothingIterated
    /\ written = NoFile
    /\ catalog2 = NoCatalog2
    /\ answer = NoCall

\* mutant: the start of text cases are missing
adjustClassNoSot(cls, sot) ==
    IF cls = ClassNL THEN ClassBK ELSE cls

\* mutant: NL is left as it is
adjustClassNoNL(cls, sot) ==
    CASE cls = ClassSP -> IF sot THEN ClassWJ ELSE cls
      [] cls = ClassLF -> IF sot THEN ClassBK ELSE cls
      [] OTHER -> cls

\* mutant: SP and LF are adjusted at every position
adjustClassAlways(cls, sot) ==
    CASE cls = ClassNL -> ClassBK
      [] cls = ClassSP -> ClassWJ
      [] cls = ClassLF -> ClassBK
      [] OTHER -> cls

\* the switch of nextClass: NL, and SP and LF at the start of text
adjustClass(cls, sot) ==
    CASE cls = ClassNL -> ClassBK
      [] cls = ClassSP -> IF sot THEN ClassWJ ELSE cls
      [] cls = ClassLF -> IF sot THEN ClassBK ELSE cls
      [] OTHER -> cls

\* mutant: the cursor moves before the end of input is tested
nextClassAdvance(res, rs, p, e) ==
    IF e # NIL THEN [cls |-> 0, err |-> e, pos |-> p + 1, serr |-> e]
    ELSE IF p >= Len(rs) THEN [cls |-> 0, err |-> EOF, pos |-> p + 1, serr |-> EOF]
    ELSE [cls |-> adjustClass(Resolve(res, rs[p + 1]), p = 0),
          err |-> NIL, pos |-> p + 1, serr |-> NIL]

\* mutant: the end of input is found one code point early
nextClassEarly(res, rs, p, e) ==
    IF e # NIL THEN [cls |-> 0, err |-> e, pos |-> p, serr |-> e]
    ELSE IF p + 1 >= Len(rs) THEN [cls |-> 0, err |-> EOF, pos |-> p, serr |-> EOF]
    ELSE [cls |-> adjustClass(Resolve(res, rs[p + 1]), p = 0),
          err |-> NIL, pos |-> p + 1, serr |-> NIL]

\* mutant: a call on an exhausted scanner rewinds it
nextClassRestart(res, rs, p, e) ==
    IF e # NIL THEN [cls |-> 0, err |-> e, pos |-> 0, serr |-> NIL]
    ELSE IF p >= Len(rs) THEN [cls |-> 0, err |-> EOF, pos |-> p, serr |-> EOF]
    ELSE [cls |-> adjustClass(Resolve(res, rs[p + 1]), p = 0),
          err |-> NIL, pos |-> p + 1, serr |-> NIL]

\* nextClass: the class and error returned, and s.pos, s.err after the call
nextClass(res, rs, p, e) ==
    IF e # NIL THEN [cls |-> 0, err |-> e, pos |-> p, serr |-> e]
    ELSE IF p >= Len(rs) THEN [cls |-> 0, err |-> EOF, pos |-> p, serr |-> EOF]
    ELSE [cls |-> adjustClass(Resolve(res, rs[p + 1]), p = 0),
          err |-> NIL, pos |-> p + 1, serr |-> NIL]

\* mutant: only BK stops the scan
hardBreakGuardNoCR(prev, cls) ==
    prev = ClassBK

\* the condition of the early return after a hard break
hardBreakGuard(prev, cls) ==
    ~(prev # ClassBK /\ (prev # ClassCR \/ cls = ClassLF))

\* the action returned for the table's action a
resolveAction(a, prev) ==
    CASE a = BreakIndirect ->
            IF prev = ClassSP THEN BreakIndirect ELSE BreakProhibited
      [] a = BreakCombiningIndirect ->
            IF prev = ClassSP THEN BreakCombiningIndirect ELSE BreakProhibited
      [] a = BreakCombiningProhibited -> BreakProhibited
      [] OTHER -> a

\* mutant: every table action saves the class read
keepPrevClassNever(a, prev) == FALSE

\* TRUE when Next returns before "s.prevClass = cls"
keepPrevClass(a, prev) ==
    CASE a = BreakCombiningIndirect -> prev # ClassSP
      [] a = BreakCombiningProhibited -> prev = ClassSP
      [] OTHER -> FALSE

NoLookup == [before |-> -1, after |-> -1, action |-> -1]

\* what a call of Next leaves and returns: the fields s.pos, s.err, s.prevClass
\* after it, the pair looked up in the table, the branch taken, and the
\* named results pos, action, err
Result(nc, prev, lk, br, rpos, action) ==
    [spos |-> nc.pos, serr |-> nc.serr, prevClass |-> prev, lookup |-> lk,
     branch |-> br, pos |-> rpos, action |-> action, err |-> nc.err]

\* mutant: the first call returns without setting action
firstCallBare(nc, prev) ==
    IF nc.err # NIL
    THEN Result(nc, prev, NoLookup, "eof", 0, BreakMandatory)
    ELSE Result(nc, nc.cls, NoLookup, "first", 0, BreakDirect)

\* "Read start of text and set prevClass": pos keeps its zero value
firstCall(nc, prev) ==
    IF nc.err # NIL
    THEN Result(nc, prev, NoLookup, "eof", 0, BreakMandatory)
    ELSE Result(nc, nc.cls, NoLookup, "first", 0, BreakProhibited)

\* mutant: a bare return at the end of input
endOfInputBare(nc, prev, p) ==
    Result(nc, prev, NoLookup, "eof", p, BreakDirect)

\* "Always break at the end"
endOfInput(nc, prev, p) ==
    Result(nc, prev, NoLookup, "eof", p, BreakMandatory)

\* mutant: the position is read after nextClass moved the cursor
afterHardBreakPos(nc, prev, p) ==
    Result(nc, prev, NoLookup, "guard", nc.pos, BreakDirect)

\* mutant: the guard saves the class it read
afterHardBreakAdvance(nc, prev, p) ==
    Result(nc, nc.cls, NoLookup, "guard", p, BreakDirect)

\* mutant: the guard reports the break after a hard line break as mandatory
afterHardBreakMandatory(nc, prev, p) ==
    Result(nc, prev, NoLookup, "guard", p, BreakMandatory)

\* the bare return of the guard: action keeps its zero value, BreakDirect
afterHardBreak(nc, prev, p) ==
    Result(nc, prev, NoLookup, "guard", p, BreakDirect)

\* mutant: a space is recorded, and a second space in a row is taken as a
\* hard break
explicitClassDoubleSpace(nc, prev, p) ==
    CASE nc.cls \in {ClassBK, ClassLF} ->
            Result(nc, ClassBK, NoLookup, "break", p, BreakProhibited)
      [] nc.cls = ClassCR ->
            Result(nc, ClassCR, NoLookup, "cr", p, BreakProhibited)
      [] nc.cls = ClassSP ->
            Result(nc, IF prev = ClassSP THEN ClassBK ELSE ClassSP,
                   NoLookup, "space", p, BreakProhibited)

\* mutant: a space is saved as the 'before' class
explicitClassSpaceSaved(nc, prev, p) ==
    CASE nc.cls \in {ClassBK, ClassLF} ->
            Result(nc, ClassBK, NoLookup, "break", p, BreakProhibited)
      [] nc.cls = ClassCR ->
            Result(nc, ClassCR, NoLookup, "cr", p, BreakProhibited)
      [] nc.cls = ClassSP ->
            Result(nc, ClassSP, NoLookup, "space", p, BreakProhibited)

\* BK, LF, CR and SP are handled without the table
explicitClass(nc, prev, p) ==
    CASE nc.cls \in {ClassBK, ClassLF} ->
            Result(nc, ClassBK, NoLookup, "break", p, BreakProhibited)
      [] nc.cls = ClassCR ->
            Result(nc, ClassCR, NoLookup, "cr", p, BreakProhibited)
      [] nc.cls = ClassSP ->
            Result(nc, prev, NoLookup, "space", p, BreakProhibited)

\* the table lookup and the resolution of its action
pairLookup(t, nc, prev, p) ==
    LET a == Action(Rows(t), prev, nc.cls) IN
    Result(nc, IF keepPrevClass(a, prev) THEN prev ELSE nc.cls,
           [before |-> prev, after |-> nc.cls, action |-> a],
           "table", p, resolveAction(a, prev))

\* Scanner.Next on the scanner (res, t, rs, p, prev, e)
ScannerNext(res, t, rs, p, prev, e) ==
    LET nc == nextClass(res, rs, p, e) IN
    IF p = 0 THEN firstCall(nc, prev)
    ELSE IF nc.err # NIL THEN endOfInput(nc, prev, p)
    ELSE IF hardBreakGuard(prev, nc.cls) THEN afterHardBreak(nc, prev, p)
    ELSE IF nc.cls \in {ClassBK, ClassLF, ClassCR, ClassSP} THEN explicitClass(nc, prev, p)
    ELSE pairLookup(t, nc, prev, p)

\* what n successive calls of Next leave and return on a new scanner of rs
\* that nothing else touches
RECURSIVE Alone(_, _, _, _)
Alone(res, t, rs, n) ==
    IF n = 0
    THEN [spos |-> 0, serr |-> NIL, prevClass |-> 0, lookup |-> NoLookup,
          branch |-> "none", pos |-> 0, action |-> BreakDirect, err |-> NIL]
    ELSE LET s == Alone(res, t, rs, n - 1) IN
         ScannerNext(res, t, rs, s.spos, s.prevClass, s.serr)

(* ------------------------------ inputs -------------------------------- *)
AllRunes == {Rune(c, FALSE) : c \in Classes} \cup {Rune(ClassSA, TRUE)}
CoreClasses == {ClassOP, ClassAL, ClassCM, ClassBK, ClassCR, ClassLF, ClassNL, ClassSP}
CoreRunes == {Rune(c, FALSE) : c \in CoreClasses}

SeqsUpTo(S, n) == UNION {[1..k -> S] : k \in 0..n}
Inputs == SeqsUpTo(CoreRunes, MaxLen) \cup SeqsUpTo(AllRunes, MaxShort)

\* the tables of at most MaxDim rows of at most MaxDim entries each, rows of
\* different lengths included, and the default table
TailoredActions == {BreakDirect, BreakMandatory}
TailoredTables ==
    {Tailored(t) : t \in SeqsUpTo(SeqsUpTo(TailoredActions, MaxDim), MaxDim)}
        \cup {DefaultTable}
LookupClasses == 0..MaxDim \cup {ClassRI, ClassBK, ClassXX}

\* the fields of a new Scanner, and nothing returned or collected yet
NewScanner(r) ==
    /\ runes = r
    /\ Resolver = "classResolver"
    /\ Table = DefaultTable
    /\ pos = 0
    /\ prevClass = 0
    /\ err = NIL
    /\ ret = [pos |-> 0, action |-> BreakDirect, err |-> NIL]
    /\ branch = "none"
    /\ calls = 0
    /\ nils = 0
    /\ actions = <<>>
    /\ lookup = NoLookup

\* no code point resolved on its own yet
NoneResolved == <<>>
\* a second scanner: its fields, its last result and its number of calls
Second(r) ==
    [runes |-> r, pos |-> 0, prevClass |-> 0, err |-> NIL,
     ret |-> [pos |-> 0, action |-> BreakDirect, err |-> NIL], calls |-> 0]
NoSecond == Second(<<>>)

Init ==
    /\ \E r \in Inputs : NewScanner(r)
    /\ resolved = NoneResolved
    /\ other = NoSecond
    /\ NoGettext

\* one call of s.Next() by a caller that collects the actions as getActions
\* does until the first error, and may keep calling after it
Next ==
    /\ calls < Len(runes) + 1 + MaxExtra
    /\ LET r == ScannerNext(Resolver, Table, runes, pos, prevClass, err) IN
        /\ pos' = r.spos
        /\ err' = r.serr
        /\ prevClass' = r.prevClass
        /\ lookup' = r.lookup
        /\ branch' = r.branch
        /\ ret' = [pos |-> r.pos, action |-> r.action, err |-> r.err]
        /\ calls' = calls + 1
        /\ nils' = IF r.err = NIL THEN nils + 1 ELSE nils
        /\ actions' = IF ret.err = NIL THEN Append(actions, r.action) ELSE actions
    /\ UNCHANGED <<Resolver, Table, runes, resolved, other>>
    /\ UNCHANGED gettextVars

Spec == Init /\ [][Next]_vars

(* ------------------- PairTable.Action on its own ---------------------- *)
InitTable ==
    /\ Table \in TailoredTables
    /\ Resolver = "classResolver"
    /\ runes = <<>>
    /\ pos = 0
    /\ prevClass = 0
    /\ err = NIL
    /\ ret = [pos |-> 0, action |-> BreakDirect, err |-> NIL]
    /\ branch = "none"
    /\ calls = 0
    /\ nils = 0
    /\ actions = <<>>
    /\ lookup = NoLookup
    /\ resolved = NoneResolved
    /\ other = NoSecond
    /\ NoGettext

\* t.Action(before, after) on the table t = Table
Lookup(before, after) ==
    /\ lookup' = [before |-> before, after |-> after,
                  action |-> Action(Rows(Table), before, after)]
    /\ UNCHANGED <<Resolver, Table, runes, pos, prevClass, err,
                   ret, branch, calls, nils, actions, resolved, other>>
    /\ UNCHANGED gettextVars

NextTable == \E before \in LookupClasses, after \in LookupClasses : Lookup(before, after)

SpecTable == InitTable /\ [][NextTable]_vars

(* --------------------- classResolver on its own ----------------------- *)
\* code points of every class, and marks (Mn, Mc) of the classes SA and CM
ResolverRunes == AllRunes \cup {Rune(ClassCM, TRUE)}

InitResolver ==
    /\ \E r \in SeqsUpTo(ResolverRunes, MaxShort) : NewScanner(r)
    /\ resolved = NoneResolved
    /\ other = NoSecond
    /\ NoGettext

\* classResolver(r) on the next code point of runes
ResolveNext ==
    /\ Len(resolved) < Len(runes)
    /\ resolved' = Append(resolved, classResolver(runes[Len(resolved) + 1]))
    /\ UNCHANGED <<Resolver, Table, runes, pos, prevClass, err,
                   ret, branch, calls, nils, actions, lookup, other>>
    /\ UNCHANGED gettextVars

SpecResolver == InitResolver /\ [][ResolveNext]_vars

(* ------------------ two scanners, calls interleaved ------------------- *)
PairClasses == {ClassAL, ClassCM, ClassBK, ClassSP}
PairInputs == SeqsUpTo({Rune(c, FALSE) : c \in PairClasses}, MaxPair)

\* NewScanner twice: both scanners hold the same table and resolver
InitPair ==
    /\ \E r \in PairInputs : NewScanner(r)
    /\ \E q \in PairInputs : other = Second(q)
    /\ resolved = NoneResolved
    /\ NoGettext

\* mutant: the 'before' class is one package variable of all scanners
OtherNextSharedPrev ==
    /\ other.calls < Len(other.runes) + 1 + MaxExtra
    /\ LET r == ScannerNext(Resolver, Table, other.runes, other.pos, prevClass, other.err) IN
        /\ other' = [runes |-> other.runes, pos |-> r.spos, prevClass |-> r.prevClass,
                     err |-> r.serr,
                     ret |-> [pos |-> r.pos, action |-> r.action, err |-> r.err],
                     calls |-> other.calls + 1]
        /\ prevClass' = r.prevClass
    /\ UNCHANGED <<Resolver, Table, runes, pos, err,
                   ret, branch, calls, nils, actions, lookup, resolved>>
    /\ UNCHANGED gettextVars

\* one call of Next on the second scanner
OtherNext ==
    /\ other.calls < Len(other.runes) + 1 + MaxExtra
    /\ LET r == ScannerNext(Resolver, Table, other.runes, other.pos, other.prevClass, other.err) IN
        other' = [runes |-> other.runes, pos |-> r.spos, prevClass |-> r.prevClass,
                  err |-> r.serr,
                  ret |-> [pos |-> r.pos, action |-> r.action, err |-> r.err],
                  calls |-> other.calls + 1]
    /\ UNCHANGED <<Resolver, Table, runes, pos, prevClass, err,
                   ret, branch, calls, nils, actions, lookup, resolved>>
    /\ UNCHANGED gettextVars

NextPair == Next \/ OtherNext

SpecPair == InitPair /\ [][NextPair]_vars

(* ------------- a scanner with a supplied table and resolver ----------- *)
\* a table of n rows of n entries, all of them the action a
Uniform(a, n) == [i \in 1..n |-> [j \in 1..n |-> a]]
SuppliedTables ==
    {Tailored(Uniform(a, n)) : a \in BreakActions, n \in 1..MaxDim} \cup {DefaultTable}
\* classes inside and outside the supplied tables, and AI that LB1 resolves
SuppliedClasses == {ClassOP, ClassCL, ClassCM, ClassSP, ClassBK, ClassAI}
SuppliedInputs == SeqsUpTo({Rune(c, FALSE) : c \in SuppliedClasses}, MaxText)

\* NewScanner, then the caller sets the exported fields Resolver and Table
InitSupplied ==
    /\ runes \in SuppliedInputs
    /\ Resolver \in Resolvers
    /\ Table \in SuppliedTables
    /\ pos = 0
    /\ prevClass = 0
    /\ err = NIL
    /\ ret = [pos |-> 0, action |-> BreakDirect, err |-> NIL]
    /\ branch = "none"
    /\ calls = 0
    /\ nils = 0
    /\ actions = <<>>
    /\ lookup = NoLookup
    /\ resolved = NoneResolved
    /\ other = NoSecond
    /\ NoGettext

SpecSupplied == InitSupplied /\ [][Next]_vars

(* ---------------------- gettext: the MO format ------------------------ *)
\* the magic numbers 0x950412de and 0xde120495, most significant byte first
littleEndian == <<149, 4, 18, 222>>
bigEndian == <<222, 18, 4, 149>>

\* separators of msgctxt, msgid, msgstr and their plural forms
nulBytes == <<0>>
eotBytes == <<4>>

RECURSIVE Reverse(_)
Reverse(s) == IF s = <<>> THEN <<>> ELSE Append(Reverse(Tail(s)), Head(s))

RECURSIVE Pow256(_)
Pow256(i) == IF i = 0 THEN 1 ELSE 256 * Pow256(i - 1)

\* binary.Write of an unsigned integer of size bytes
PutUint(order, n, size) ==
    LET le == [i \in 1..size |-> (n \div Pow256(i - 1)) % 256]
    IN IF order = "LittleEndian" THEN le ELSE Reverse(le)

\* the unsigned integer binary.Read decodes from the bytes bs
RECURSIVE UintLE(_)
UintLE(bs) == IF bs = <<>> THEN 0 ELSE Head(bs) + 256 * UintLE(Tail(bs))

Uint(order, bs) == IF order = "LittleEndian" THEN UintLE(bs) ELSE UintLE(Reverse(bs))

\* binary.Read of n bytes at offset off of the stream s: io.EOF when no
\* byte is left, io.ErrUnexpectedEOF when fewer than n are; reading no
\* byte always succeeds
binaryRead(s, off, n) ==
    IF n = 0 THEN [b |-> <<>>, err |-> NIL]
    ELSE IF off >= Len(s) THEN [b |-> <<>>, err |-> EOF]
    ELSE IF off + n > Len(s) THEN [b |-> <<>>, err |-> "ErrUnexpectedEOF"]
    ELSE [b |-> SubSeq(s, off + 1, off + n), err |-> NIL]

\* bytes.Index(bs, sep) for a separator of one byte: 0-based, -1 if absent
Index(bs, sep) ==
    IF \E i \in 1..Len(bs) : <<bs[i]>> = sep
    THEN (CHOOSE i \in 1..Len(bs) :
              <<bs[i]>> = sep /\ \A j \in 1..(i - 1) : <<bs[j]>> # sep) - 1
    ELSE -1

\* bytes.Split(bs, sep) and bytes.Join(l, sep) for a separator of one byte
RECURSIVE Split(_, _)
Split(bs, sep) ==
    LET i == Index(bs, sep) IN
    IF i = -1 THEN <<bs>>
    ELSE <<SubSeq(bs, 1, i)>> \o Split(SubSeq(bs, i + 2, Len(bs)), sep)

RECURSIVE Join(_, _)
Join(l, sep) ==
    IF l = <<>> THEN <<>>
    ELSE IF Len(l) = 1 THEN l[1]
    ELSE l[1] \o sep \o Join(Tail(l), sep)

(* --------------------------- gettext: moReader ------------------------ *)
moHeaderZero == [nil |-> FALSE, MsgCount |-> 0, IdTableOffset |-> 0, StrTableOffset |-> 0]

\* readHeader: the header, the error, and r.order and r.offset after it
readHeader(s, r) ==
    LET magic == binaryRead(s, 0, 4)
        order == IF Reverse(magic.b) = bigEndian THEN "BigEndian"
                 ELSE IF Reverse(magic.b) = littleEndian THEN "LittleEndian"
                 ELSE "none"
        revision == binaryRead(s, 4, 4)
        major == Uint(order, SubSeq(revision.b, 1, 2))
        h == binaryRead(s, 8, 20)
        fail(e, o) == [h |-> moHeaderZero, err |-> e, order |-> o, offset |-> 0]
    IN IF magic.err # NIL THEN fail(magic.err, r.order)
       ELSE IF order = "none" THEN fail("Unable to identify the byte order.", r.order)
       ELSE IF revision.err # NIL THEN fail(revision.err, order)
       ELSE IF major # 0 /\ major # 1 THEN fail("Unexpected major revision number.", order)
       ELSE IF h.err # NIL THEN fail(h.err, order)
       ELSE [h |-> [nil |-> FALSE,
                    MsgCount |-> Uint(order, SubSeq(h.b, 1, 4)),
                    IdTableOffset |-> Uint(order, SubSeq(h.b, 5, 8)),
                    StrTableOffset |-> Uint(order, SubSeq(h.b, 9, 12))],
             err |-> NIL, order |-> order, offset |-> 28]

\* init: parses the header on the first call of Size or Next
init(s, r) ==
    IF r.header.nil
    THEN LET p == readHeader(s, r) IN
         [offset |-> p.offset, order |-> p.order, header |-> p.h,
          pos |-> r.pos, err |-> IF p.err # NIL THEN p.err ELSE r.err]
    ELSE r

\* Size: the reader after the call and the number returned
Size(s, r) == [reader |-> init(s, r), size |-> init(s, r).header.MsgCount]

\* readMessage: the bytes at the place the table entry at tableOffset names
readMessage(s, r, tableOffset) ==
    LET entry == binaryRead(s, tableOffset, 8)
        size == Uint(r.order, SubSeq(entry.b, 1, 4))
        at == Uint(r.order, SubSeq(entry.b, 5, 8))
        bytes == binaryRead(s, at, size)
    IN IF entry.err # NIL THEN [b |-> NilSlice, err |-> entry.err, offset |-> tableOffset]
       ELSE IF bytes.err # NIL THEN [b |-> NilSlice, err |-> bytes.err, offset |-> at]
       ELSE [b |-> Slice(bytes.b), err |-> NIL, offset |-> at + size]

\* the msgid and msgstr read, cut at EOT into context and id and at NUL
\* into singular and plural
splitMessage(id, str) ==
    LET e == Index(id, eotBytes)
        ctxt == IF e # -1 THEN Slice(SubSeq(id, 1, e)) ELSE NilSlice
        rest == IF e # -1 THEN SubSeq(id, e + 2, Len(id)) ELSE id
        n == Index(rest, nulBytes)
    IN IF n # -1
       THEN [nil |-> FALSE, Ctxt |-> ctxt, Id |-> Slice(SubSeq(rest, 1, n)),
             IdPlural |-> Slice(SubSeq(rest, n + 2, Len(rest))),
             Str |-> NilSlice, StrPlural |-> Slice(Split(str, nulBytes))]
       ELSE [nil |-> FALSE, Ctxt |-> ctxt, Id |-> Slice(rest), IdPlural |-> NilSlice,
             Str |-> Slice(str), StrPlural |-> NilSlice]

\* Next from line 142 on: both reads succeeded
nextSplit(r, id, str) ==
    [reader |-> [r EXCEPT !.offset = str.offset, !.pos = r.pos + 1],
     msg |-> splitMessage(id.b.b, str.b.b), err |-> NIL]

\* mutant: a msgstr that cannot be read is skipped and the error not kept
nextStrSkips(r, id, str) ==
    IF str.err # NIL
    THEN [reader |-> [r EXCEPT !.offset = str.offset, !.pos = r.pos + 1],
          msg |-> NoMessage, err |-> str.err]
    ELSE nextSplit(r, id, str)

\* Next from line 137 on: the msgid was read as id
nextStr(r, id, str) ==
    IF str.err # NIL
    THEN [reader |-> [r EXCEPT !.err = str.err, !.offset = str.offset],
          msg |-> NoMessage, err |-> str.err]
    ELSE nextSplit(r, id, str)

\* Next from line 133 on: there is a message at r.pos
nextId(s, r, id) ==
    IF id.err # NIL
    THEN [reader |-> [r EXCEPT !.err = id.err, !.offset = id.offset],
          msg |-> NoMessage, err |-> id.err]
    ELSE nextStr(r, id, readMessage(s, [r EXCEPT !.offset = id.offset],
                                    r.header.StrTableOffset + r.pos * 8))

\* Next from line 123 on: r is the reader as init left it
nextInit(s, r) ==
    IF r.err # NIL THEN [reader |-> r, msg |-> NoMessage, err |-> r.err]
    ELSE IF r.pos >= r.header.MsgCount
    THEN [reader |-> [r EXCEPT !.err = EOF], msg |-> NoMessage, err |-> EOF]
    ELSE nextId(s, r, readMessage(s, r, r.header.IdTableOffset + r.pos * 8))

\* mutant: the position is not advanced
moReaderNextStuck(s, r0) == [nextInit(s, init(s, r0)) EXCEPT !.reader.pos = r0.pos]

\* moReader.Next: the reader after the call, and the message and error returned
moReaderNext(s, r0) == nextInit(s, init(s, r0))

(* ------------------- gettext: the translations header ----------------- *)
\* the bytes "\n", ":", ": " and "-", and the white space " ", "\t", "\r"
newline == <<10>>
colon == <<58>>
colonSpace == <<58, 32>>
hyphen == <<45>>
WhiteSpace == {32, 9, 13}

IsUpper(c) == c >= 65 /\ c <= 90
IsLower(c) == c >= 97 /\ c <= 122

\* textproto.CanonicalMIMEHeaderKey on a key of letters and hyphens: the
\* first letter and every letter after a hyphen in upper case, the others
\* in lower case
RECURSIVE canonicalKey(_, _)
canonicalKey(k, upper) ==
    IF k = <<>> THEN <<>>
    ELSE LET c == Head(k)
             d == IF upper /\ IsLower(c) THEN c - 32
                  ELSE IF ~upper /\ IsUpper(c) THEN c + 32
                  ELSE c
         IN <<d>> \o canonicalKey(Tail(k), <<c>> = hyphen)

\* a line without the white space at its ends
RECURSIVE trimLeft(_)
trimLeft(l) ==
    IF l # <<>> /\ Head(l) \in WhiteSpace THEN trimLeft(Tail(l)) ELSE l

trim(l) == Reverse(trimLeft(Reverse(trimLeft(l))))

\* textproto.Reader.ReadMIMEHeader on the bytes bs with the header m read
\* so far, for lines that are not continued: the header and io.EOF at the
\* end of the bytes, the header and no error at an empty line, a protocol
\* error at a line without a colon
RECURSIVE ReadMIMEHeader(_, _)
ReadMIMEHeader(bs, m) ==
    IF bs = <<>> THEN [h |-> m, err |-> EOF]
    ELSE LET n == Index(bs, newline)
             line == trim(IF n = -1 THEN bs ELSE SubSeq(bs, 1, n))
             rest == IF n = -1 THEN <<>> ELSE SubSeq(bs, n + 2, Len(bs))
             c == Index(line, colon)
             name == canonicalKey(SubSeq(line, 1, c), TRUE)
             value == trimLeft(SubSeq(line, c + 2, Len(line)))
             values == IF name \in DOMAIN m THEN m[name] ELSE <<>>
         IN IF line = <<>> THEN [h |-> m, err |-> NIL]
            ELSE IF c = -1 THEN [h |-> m, err |-> "malformed MIME header line"]
            ELSE ReadMIMEHeader(rest, [k \in DOMAIN m \cup {name} |->
                                          IF k = name THEN Append(values, value) ELSE m[k]])

\* bytesToHeader: the parsed header if the parse ended at the end of the
\* bytes, an empty header otherwise
bytesToHeader(header) ==
    LET p == ReadMIMEHeader(header.b, EmptyMap)
    IN IF p.err = EOF THEN [nil |-> FALSE, h |-> p.h] ELSE [nil |-> FALSE, h |-> EmptyMap]

\* the orders in which range visits the keys of a map
RECURSIVE Orders(_)
Orders(S) ==
    IF S = {} THEN {<<>>}
    ELSE UNION {{<<k>> \o o : o \in Orders(S \ {k})} : k \in S}

\* the lines "key: value\n" of the values of one key
RECURSIVE headerLines(_, _)
headerLines(name, values) ==
    IF values = <<>> THEN <<>>
    ELSE name \o colonSpace \o Head(values) \o newline \o headerLines(name, Tail(values))

RECURSIVE headerText(_, _)
headerText(h, order) ==
    IF order = <<>> THEN <<>>
    ELSE headerLines(Head(order), h[Head(order)]) \o headerText(h, Tail(order))

\* headerToBytes: the byte slices it can return, one per order of the keys;
\* nil for a nil header, and for a header without lines (the bytes of an
\* empty bytes.Buffer)
headerToBytes(header) ==
    IF header.nil THEN {NilSlice}
    ELSE {IF headerText(header.h, o) = <<>> THEN NilSlice ELSE Slice(headerText(header.h, o)) :
             o \in Orders(DOMAIN header.h)}

(* ---------------------------- gettext: Catalog ------------------------ *)
\* Catalog.key: the key of a message, or an error for a nil msgid
key(ctxt, id) ==
    IF id.nil THEN [key |-> <<>>, err |-> "Invalid msgid."]
    ELSE IF ctxt.nil THEN [key |-> id.b, err |-> NIL]
    ELSE [key |-> ctxt.b \o eotBytes \o id.b, err |-> NIL]

\* mutant: the test for a key that is already stored is missing
setMessageReplace(c, msg) ==
    LET k == key(msg.Ctxt, msg.Id) IN
    IF k.err # NIL THEN [c |-> c, err |-> k.err]
    ELSE IF Len(k.key) = 0 /\ ~c.Header.nil
    THEN [c |-> c, err |-> "Catalog header already exists."]
    ELSE [c |-> [Header |-> IF Len(k.key) = 0 THEN bytesToHeader(msg.Str) ELSE c.Header,
                 msgs |-> [x \in DOMAIN c.msgs \cup {k.key} |->
                              IF x = k.key THEN msg ELSE c.msgs[x]],
                 keys |-> Append(c.keys, k.key)],
          err |-> NIL]

\* Catalog.setMessage: the catalog after the call and the error returned
setMessage(c, msg) ==
    LET k == key(msg.Ctxt, msg.Id) IN
    IF k.err # NIL THEN [c |-> c, err |-> k.err]
    ELSE IF k.key \in DOMAIN c.msgs THEN [c |-> c, err |-> "Message key already exists"]
    ELSE IF Len(k.key) = 0 /\ ~c.Header.nil
    THEN [c |-> c, err |-> "Catalog header already exists."]
    ELSE [c |-> [Header |-> IF Len(k.key) = 0 THEN bytesToHeader(msg.Str) ELSE c.Header,
                 msgs |-> [x \in DOMAIN c.msgs \cup {k.key} |->
                              IF x = k.key THEN msg ELSE c.msgs[x]],
                 keys |-> Append(c.keys, k.key)],
          err |-> NIL]

\* the loop of Catalog.ReadMo: n more messages from the reader r
RECURSIVE readLoop(_, _, _, _)
readLoop(c, s, r, n) ==
    IF n = 0 THEN [c |-> c, err |-> NIL]
    ELSE LET x == moReaderNext(s, r) IN
         IF x.err # NIL THEN [c |-> c, err |-> x.err]
         ELSE readLoop(setMessage(c, x.msg).c, s, x.reader, n - 1)

\* Catalog.ReadMo: the catalog after reading the stream s, and the error
CatalogReadMo(c, s) ==
    LET z == Size(s, ReadMo(s)) IN readLoop(c, s, z.reader, z.size)

\* mutant: the key is returned for every key
SingularKey(c, k) == k

\* Catalog.Singular without arguments
Singular(c, k) ==
    IF k \in DOMAIN c.msgs /\ ~c.msgs[k].Str.nil THEN c.msgs[k].Str.b ELSE k

\* a < b for strings, byte by byte
RECURSIVE Less(_, _)
Less(a, b) ==
    IF b = <<>> THEN FALSE
    ELSE IF a = <<>> THEN TRUE
    ELSE IF Head(a) # Head(b) THEN Head(a) < Head(b)
    ELSE Less(Tail(a), Tail(b))

\* sort.Strings
RECURSIVE sortStrings(_)
sortStrings(l) ==
    IF l = <<>> THEN <<>>
    ELSE LET m == CHOOSE i \in 1..Len(l) :
                      \A j \in 1..Len(l) : l[j] = l[i] \/ Less(l[i], l[j])
         IN <<l[m]>> \o sortStrings(SubSeq(l, 1, m - 1) \o SubSeq(l, m + 1, Len(l)))

\* mutant: the keys are left in the order they were stored in
IterUnsorted(c) == c

\* Catalog.Iter: the keys are sorted; the iterator starts at position 0
Iter(c) == [c EXCEPT !.keys = sortStrings(c.keys)]

\* catalogIterator.Size
catalogIteratorSize(c) == Len(c.keys)

\* catalogIterator.Next: the catalog and the iterator after the call and the
\* message and error returned, for each order headerToBytes can take
catalogIteratorNext(c, it) ==
    IF it.pos < Len(c.keys)
    THEN LET k == c.keys[it.pos + 1] IN
         {[c |-> [c EXCEPT !.msgs[k].Str = str],
           it |-> [it EXCEPT !.pos = it.pos + 1],
           msg |-> [c.msgs[k] EXCEPT !.Str = str], err |-> NIL] :
             str \in IF Len(k) = 0 THEN headerToBytes(c.Header) ELSE {c.msgs[k].Str}}
    ELSE {[c |-> c, it |-> it, msg |-> NoMessage, err |-> EOF]}

(* ---------------------------- gettext: moWriter ----------------------- *)
\* the file after writing the bytes bs at offset off: a seek past the end
\* leaves a hole of zero bytes
WriteAt(f, off, bs) ==
    LET end == IF off + Len(bs) > Len(f) THEN off + Len(bs) ELSE Len(f) IN
    [i \in 1..end |-> IF i > off /\ i <= off + Len(bs) THEN bs[i - off]
                      ELSE IF i <= Len(f) THEN f[i]
                      ELSE 0]

\* writeHeader: magic number, revision 0.0 and the five header values
writeHeader(f, h) ==
    WriteAt(f, 0, Reverse(littleEndian)
                  \o PutUint("LittleEndian", 0, 2) \o PutUint("LittleEndian", 0, 2)
                  \o PutUint("LittleEndian", h.MsgCount, 4)
                  \o PutUint("LittleEndian", h.IdTableOffset, 4)
                  \o PutUint("LittleEndian", h.StrTableOffset, 4)
                  \o PutUint("LittleEndian", 0, 4) \o PutUint("LittleEndian", 0, 4))

\* writeMessage: length and position in the table, then the bytes and a NUL
writeMessage(f, tableOffset, msgOffset, bytes) ==
    WriteAt(WriteAt(f, tableOffset,
                    PutUint("LittleEndian", Len(bytes), 4)
                    \o PutUint("LittleEndian", msgOffset, 4)),
            msgOffset, bytes \o nulBytes)

\* the msgid writeAll writes for a message
msgidBytes(msg) ==
    LET b == IF msg.Ctxt.nil THEN msg.Id.b ELSE msg.Ctxt.b \o eotBytes \o msg.Id.b
    IN IF msg.IdPlural.nil THEN b ELSE b \o nulBytes \o msg.IdPlural.b

\* mutant: the msgstr of every message is its singular string
msgstrBytesSingular(msg) == msg.Str.b

\* the msgstr writeAll writes for a message
msgstrBytes(msg) ==
    IF msg.IdPlural.nil THEN msg.Str.b ELSE Join(msg.StrPlural.b, nulBytes)

\* the loop of writeAll from message i on, the next bytes going to offset:
\* the catalog, the iterator and the file after it, and the error, for each
\* result the iterator can give
RECURSIVE writeLoop(_, _, _, _, _, _)
writeLoop(c, it, f, h, i, offset) ==
    IF i >= h.MsgCount THEN {[c |-> c, it |-> it, f |-> f, err |-> NIL]}
    ELSE UNION {
        IF x.err # NIL THEN {[c |-> x.c, it |-> x.it, f |-> f, err |-> x.err]}
        ELSE LET id == msgidBytes(x.msg)
                 str == msgstrBytes(x.msg)
                 f1 == writeMessage(f, h.IdTableOffset + i * 8, offset, id)
                 f2 == writeMessage(f1, h.StrTableOffset + i * 8,
                                    offset + Len(id) + 1, str)
             IN writeLoop(x.c, x.it, f2, h, i + 1,
                          offset + Len(id) + 1 + Len(str) + 1)
        : x \in catalogIteratorNext(c, it)}

\* writeAll on an empty file with the iterator it of the catalog c
writeAll(c, it) ==
    LET msgCount == catalogIteratorSize(c)
        h == [MsgCount |-> msgCount, IdTableOffset |-> 28,
              StrTableOffset |-> msgCount * 8 + 28]
    IN writeLoop(c, it, writeHeader(<<>>, h), h, 0, msgCount * 16 + 28)

\* WriteMo(w, c.Iter())
WriteMo(c) == writeAll(Iter(c), catalogIterator)

(* --------------------------- gettext: inputs -------------------------- *)
\* a MO file with the messages raws (pairs of msgid and msgstr bytes) in
\* the layout of GNU msgfmt: header, table of msgids, table of msgstrs,
\* then the msgids and the msgstrs, each followed by a NUL
\* the strings l, each followed by a NUL
RECURSIVE Data(_)
Data(l) == IF l = <<>> THEN <<>> ELSE Head(l) \o nulBytes \o Data(Tail(l))

\* the table entries, length and offset, of the strings l from number i
\* on, the strings before number i ending at offset at
RECURSIVE Entries(_, _, _, _)
Entries(order, l, i, at) ==
    IF i > Len(l) THEN <<>>
    ELSE PutUint(order, Len(l[i]), 4) \o PutUint(order, at, 4)
         \o Entries(order, l, i + 1, at + Len(l[i]) + 1)

MoStream(order, major, raws) ==
    LET n == Len(raws)
        l == [i \in 1..(2 * n) |-> IF i <= n THEN raws[i][1] ELSE raws[i - n][2]]
    IN (IF order = "LittleEndian" THEN Reverse(littleEndian) ELSE littleEndian)
       \o PutUint(order, major, 2) \o PutUint(order, 0, 2)
       \o PutUint(order, n, 4) \o PutUint(order, 28, 4) \o PutUint(order, 28 + 8 * n, 4)
       \o PutUint(order, 0, 4) \o PutUint(order, 28 + 16 * n, 4)
       \o Entries(order, l, 1, 28 + 16 * n) \o Data(l)

\* pairs of msgid and msgstr: the headers "K: v\nL: w\n", "k:v\n" and
\* "K: v\n\n"; "a" with "x"; "a" in the context "b" with "y"; the plural
\* "a", "b" with "x", "y"; and the plural "a", "" in the context "" with ""
RawMessages ==
    { << <<>>, <<75, 58, 32, 118, 10, 76, 58, 32, 119, 10>> >>,
      << <<>>, <<107, 58, 118, 10>> >>,
      << <<>>, <<75, 58, 32, 118, 10, 10>> >>,
      << <<97>>, <<120>> >>,
      << <<98, 4, 97>>, <<121>> >>,
      << <<97, 0, 98>>, <<120, 0, 121>> >>,
      << <<4, 97, 0>>, <<>> >> }

\* the keys Singular is asked for: "", "a", "b\x04a", "\x04a" and "z"
AskedKeys == {<<>>, <<97>>, <<98, 4, 97>>, <<4, 97>>, <<122>>}

\* a file of the two messages "a" with "x" and "b" with "yy" that lost its
\* last two bytes: the second msgstr cannot be read
CutStream ==
    LET f == MoStream("LittleEndian", 0,
                      << << <<97>>, <<120>> >>, << <<98>>, <<121, 121>> >> >>)
    IN SubSeq(f, 1, Len(f) - 2)

\* well-formed MO files of up to MaxMsgs messages, files of one message in
\* big-endian byte order and of major revision 1, and files a reader cannot
\* accept: an unknown magic number, major revision 2, a file cut inside
\* its header, and a file cut inside its last string
Streams ==
    {MoStream("LittleEndian", 0, l) : l \in SeqsUpTo(RawMessages, MaxMsgs)}
    \cup {MoStream("BigEndian", 0, l) : l \in SeqsUpTo(RawMessages, 1)}
    \cup {MoStream("LittleEndian", 1, << << <<97>>, <<120>> >> >>),
          MoStream("LittleEndian", 2, << << <<97>>, <<120>> >> >>),
          <<1, 2, 3, 4>> \o SubSeq(MoStream("LittleEndian", 0, <<>>), 5, 28),
          SubSeq(MoStream("LittleEndian", 0, <<>>), 1, 10),
          CutStream}

\* a MO stream is at hand; the scanner is not used
InitMo ==
    /\ NewScanner(<<>>)
    /\ resolved = NoneResolved
    /\ other = NoSecond
    /\ stream \in Streams
    /\ reader = ReadMo(stream)
    /\ read = NothingRead
    /\ catalog = NewCatalog
    /\ iterator = NoIterator
    /\ iterated = NothingIterated
    /\ written = NoFile
    /\ catalog2 = NoCatalog2
    /\ answer = NoCall

(* ------------------------- gettext: the calls ------------------------- *)
\* reader.Size()
MoSize ==
    /\ \E x \in {Size(stream, reader)} :
        /\ reader' = x.reader
        /\ read' = [read EXCEPT !.size = x.size]
    /\ UNCHANGED <<stream, catalog, iterator, iterated, written, catalog2, answer>>
    /\ UNCHANGED scannerVars

\* reader.Next(), by a caller that may go on calling after an error
MoNext ==
    /\ \E x \in {moReaderNext(stream, reader)} :
        /\ reader' = x.reader
        /\ read' = [read EXCEPT !.msgs = IF x.err = NIL THEN Append(@, x.msg) ELSE @,
                                !.ret = [msg |-> x.msg, err |-> x.err]]
    /\ UNCHANGED <<stream, catalog, iterator, iterated, written, catalog2, answer>>
    /\ UNCHANGED scannerVars

\* catalog.ReadMo(stream), before the catalog is written
CatalogReadMoCall ==
    /\ written.nil
    /\ \E x \in {CatalogReadMo(catalog, stream)} :
        /\ catalog' = x.c
        /\ answer' = [call |-> "ReadMo", key |-> <<>>, text |-> <<>>, err |-> x.err]
    /\ UNCHANGED <<stream, reader, read, iterator, iterated, written, catalog2>>
    /\ UNCHANGED scannerVars

\* catalog.Singular(k)
SingularCall(k) ==
    /\ answer' = [call |-> "Singular", key |-> k, text |-> Singular(catalog, k), err |-> NIL]
    /\ UNCHANGED <<stream, reader, read, catalog, iterator, iterated, written, catalog2>>
    /\ UNCHANGED scannerVars

\* catalog.Iter(), once
IterCall ==
    /\ ~iterator.on
    /\ catalog' = Iter(catalog)
    /\ iterator' = catalogIterator
    /\ iterated' = [NothingIterated EXCEPT !.keys = Iter(catalog).keys]
    /\ UNCHANGED <<stream, reader, read, written, catalog2, answer>>
    /\ UNCHANGED scannerVars

\* iterator.Size()
IterSize ==
    /\ iterator.on
    /\ iterated' = [iterated EXCEPT !.size = catalogIteratorSize(catalog)]
    /\ UNCHANGED <<stream, reader, read, catalog, iterator, written, catalog2, answer>>
    /\ UNCHANGED scannerVars

\* iterator.Next(), by a caller that may go on calling after io.EOF
IterNext ==
    /\ iterator.on
    /\ \E x \in catalogIteratorNext(catalog, iterator) :
        /\ catalog' = x.c
        /\ iterator' = x.it
        /\ iterated' = [iterated EXCEPT !.msgs = IF x.err = NIL THEN Append(@, x.msg) ELSE @,
                                        !.ret = [msg |-> x.msg, err |-> x.err]]
    /\ UNCHANGED <<stream, reader, read, written, catalog2, answer>>
    /\ UNCHANGED scannerVars

\* WriteMo(f1, catalog.Iter()) on a new file f1: a catalog read back from
\* an earlier file is dropped
WriteMoCall ==
    /\ \E x \in WriteMo(catalog) :
        /\ catalog' = x.c
        /\ written' = [nil |-> FALSE, b |-> x.f]
    /\ catalog2' = NoCatalog2
    /\ UNCHANGED <<stream, reader, read, iterator, iterated, answer>>
    /\ UNCHANGED scannerVars

\* c2 := NewCatalog(); c2.ReadMo(f2) on the file written
ReadBack ==
    /\ ~written.nil
    /\ \E x \in {CatalogReadMo(NewCatalog, written.b)} :
        catalog2' = [nil |-> FALSE, c |-> x.c, err |-> x.err]
    /\ UNCHANGED <<stream, reader, read, catalog, iterator, iterated, written, answer>>
    /\ UNCHANGED scannerVars

\* the two iterators: a moReader on the stream, and the iterator of a
\* catalog that was read from it
NextIter == MoSize \/ MoNext \/ CatalogReadMoCall \/ IterCall \/ IterSize \/ IterNext

SpecIter == InitMo /\ [][NextIter]_vars

\* a catalog: read, asked, written and read back
NextCatalog ==
    \/ CatalogReadMoCall
    \/ \E k \in AskedKeys : SingularCall(k)
    \/ WriteMoCall
    \/ ReadBack

SpecCatalog == InitMo /\ [][NextCatalog]_vars

\* a Message of a singular string
NewMessage(ctxt, id, str) ==
    [nil |-> FALSE, Ctxt |-> ctxt, Id |-> id, IdPlural |-> NilSlice,
     Str |-> str, StrPlural |-> NilSlice]

\* the messages handed to setMessage: "a" translated as "z", "a" in the
\* context "b", a header "K: w\n", and a message without msgid
SetMessages ==
    {NewMessage(NilSlice, Slice(<<97>>), Slice(<<122>>)),
     NewMessage(Slice(<<98>>), Slice(<<97>>), Slice(<<121>>)),
     NewMessage(NilSlice, Slice(<<>>), Slice(<<75, 58, 32, 119, 10>>)),
     NewMessage(NilSlice, NilSlice, Slice(<<122>>))}

\* catalog.setMessage(msg)
SetMessageCall(msg) ==
    /\ \E x \in {setMessage(catalog, msg)} :
        /\ catalog' = x.c
        /\ answer' = [call |-> "setMessage", key |-> key(msg.Ctxt, msg.Id).key,
                      text |-> <<>>, err |-> x.err]
    /\ UNCHANGED <<stream, reader, read, iterator, iterated, written, catalog2>>
    /\ UNCHANGED scannerVars

\* a catalog filled by ReadMo and setMessage in any order, ReadMo of the
\* same file twice included
NextSet == CatalogReadMoCall \/ \E msg \in SetMessages : SetMessageCall(msg)

SpecSet == InitMo /\ [][NextSet]_vars

(* ------------------------------ claims -------------------------------- *)
\* the class the scanner reads for the code point at 1-based index i
ReadClass(i) == Resolve(Resolver, runes[i])
\* the class remembered for a first code point of resolved class c
StartClass(c) ==
    IF c \in {ClassNL, ClassLF} THEN ClassBK
    ELSE IF c = ClassSP THEN ClassWJ
    ELSE c
\* the terminal triple
Terminal == [pos |-> Len(runes), action |-> BreakMandatory, err |-> EOF]
InputClasses == [i \in 1..Len(runes) |-> Class(runes[i])]

\* C1: once Next has returned io.EOF, every later call returns the same
\* triple (len(runes), BreakMandatory, io.EOF).
C1_TerminalRepeats ==
    [][ret.err = EOF => (ret' = ret /\ ret' = Terminal)]_vars

C1_Witness ==
    /\ Len(runes) >= 2
    /\ calls = Len(runes) + 1 + MaxExtra
    /\ ret = Terminal

\* C2: Next returns a nil error on exactly the first len(runes) calls and
\* io.EOF on call len(runes)+1 (the first call, with BreakMandatory, for the
\* empty input), so the collecting loop ends after len(runes)+1 calls.
C2_NilExactlyLenTimes ==
    calls > 0 =>
        /\ ret.err \in {NIL, EOF}
        /\ ret.err = NIL <=> calls <= Len(runes)
        /\ nils = IF calls <= Len(runes) THEN calls ELSE Len(runes)
        /\ Len(actions) = IF calls <= Len(runes) THEN calls ELSE Len(runes) + 1
        /\ Len(runes) = 0 => ret = [pos |-> 0, action |-> BreakMandatory, err |-> EOF]

C2_Witness ==
    /\ Len(runes) = 3
    /\ calls = 4
    /\ nils = 3
    /\ ret.err = EOF

\* C3: every call that returns io.EOF returns BreakMandatory, so the last
\* action collected up to the first io.EOF is BreakMandatory.
C3_EndIsMandatory ==
    (calls > 0 /\ ret.err # NIL) =>
        /\ ret.action = BreakMandatory
        /\ actions # <<>>
        /\ actions[Len(actions)] = BreakMandatory

C3_Witness ==
    /\ ret.err = EOF
    /\ Len(actions) = 3
    /\ actions[2] # BreakMandatory
    /\ actions[3] = BreakMandatory

\* C4: the k-th call, k = 1..len(runes)+1, returns position k-1, the calls
\* that return after a hard break included, and each call before the end of
\* input consumes exactly one code point.
C4_PositionsInOrder ==
    /\ pos = (IF calls <= Len(runes) THEN calls ELSE Len(runes))
    /\ calls \in 1..(Len(runes) + 1) => ret.pos = calls - 1

C4_Witness ==
    /\ branch = "guard"
    /\ calls = 3
    /\ ret.pos = 2
    /\ pos = 3

\* C5: for a first character a and a later character b whose table action
\* is Indirect, Next reports BreakProhibited at b when b follows a directly and
\* BreakIndirect when only spaces (one or more) separate them; "a b" yields
\* [Prohibited, Prohibited, Indirect, Mandatory].
C5_SpaceTransparency ==
    /\ \A i \in 2..Len(runes) :
          ( /\ calls >= i
            /\ \A j \in 2..(i - 1) : ReadClass(j) = ClassSP
            /\ Action(Rows(Table), StartClass(ReadClass(1)), ReadClass(i)) = BreakIndirect )
          => actions[i] = (IF i = 2 THEN BreakProhibited ELSE BreakIndirect)
    /\ (InputClasses = <<ClassAL, ClassSP, ClassAL>> /\ calls >= 4)
          => actions = <<BreakProhibited, BreakProhibited, BreakIndirect, BreakMandatory>>

\* C6: after a character of class X and one or more combining marks, the
\* 'before' class of the lookup made for the next character is X.
C6_CombiningMarksKeepBase ==
    \A i \in 3..Len(runes) :
        ( /\ calls = i
          /\ \A j \in 2..(i - 1) : ReadClass(j) = ClassCM
          /\ branch = "table" )
        => lookup.before = StartClass(ReadClass(1))

\* C7: for letter, CR, LF, letter the scanner reports one mandatory break,
\* at the letter after LF, and no break between CR and LF.
C7_CRLFOneMandatoryBreak ==
    (InputClasses = <<ClassAL, ClassCR, ClassLF, ClassAL>> /\ calls >= 4) =>
        /\ actions[4] = BreakMandatory
        /\ actions[3] \in {BreakProhibited, BreakCombiningProhibited}
        /\ actions[2] # BreakMandatory

\* a call is about to read a character after a hard break: the input is not
\* exhausted, and 'before' is BK, or CR with a current class other than LF
AfterHardBreak ==
    /\ pos > 0
    /\ pos < Len(runes)
    /\ err = NIL
    /\ \/ prevClass = ClassBK
       \/ prevClass = ClassCR /\ ReadClass(pos + 1) # ClassLF

\* C8 (as stated): a call that reads a character while 'before' is BK, or
\* is CR and the current class is not LF, returns BreakProhibited.
C8_GuardReturnsProhibited ==
    [][AfterHardBreak => ret'.action = BreakProhibited]_vars

\* C8 (amended): such a call returns BreakDirect, the zero value of the
\* action result, which the bare return of the guard never assigns.
C8_GuardReturnsDirect ==
    [][AfterHardBreak => ret'.action = BreakDirect]_vars

C8_Witness ==
    /\ Len(runes) >= 3
    /\ prevClass = ClassCR
    /\ calls = 3
    /\ ReadClass(2) = ClassCR
    /\ ReadClass(3) = ClassAL
    /\ ret = [pos |-> 2, action |-> BreakDirect, err |-> NIL]

\* C9: Action returns the stored entry when 'before' is a row of the table
\* and 'after' an entry of that row, BreakProhibited otherwise, for tables
\* of any shape, and leaves the table as it was.
C9_ActionTotal ==
    [][ /\ Table' = Table
        /\ lookup' # NoLookup =>
              lookup'.action =
                 IF lookup'.before + 1 \in DOMAIN Rows(Table)
                    /\ lookup'.after + 1 \in DOMAIN Rows(Table)[lookup'.before + 1]
                 THEN Rows(Table)[lookup'.before + 1][lookup'.after + 1]
                 ELSE BreakProhibited ]_vars

\* a two-row table with rows of different lengths, asked for an entry that
\* the second row has and the first has not
C9_Witness ==
    /\ Table = Tailored(<< <<BreakDirect>>, <<BreakDirect, BreakMandatory>> >>)
    /\ lookup.before = 0
    /\ lookup.after = 1
    /\ lookup.action = BreakProhibited

\* C10: on a non-empty input the first call returns (0, BreakProhibited, nil)
\* and records the start-of-text adjusted class of the first character.
C10_FirstCall ==
    (calls = 1 /\ Len(runes) > 0) =>
        /\ ret = [pos |-> 0, action |-> BreakProhibited, err |-> NIL]
        /\ prevClass = StartClass(ReadClass(1))

C10_Witness ==
    /\ calls = 1
    /\ Len(runes) > 0
    /\ ReadClass(1) = ClassSP
    /\ prevClass = ClassWJ
    /\ ret.action = BreakProhibited

\* C11: a single line feed as the whole input yields exactly
\* [BreakProhibited, BreakMandatory], the second with io.EOF.
C11_SingleLineFeed ==
    InputClasses = <<ClassLF>> =>
        /\ calls = 1 => (actions = <<BreakProhibited>> /\ ret.err = NIL)
        /\ calls >= 2 => (actions = <<BreakProhibited, BreakMandatory>> /\ ret.err = EOF)

C11_Witness ==
    /\ InputClasses = <<ClassLF>>
    /\ calls = 2
    /\ prevClass = ClassBK
    /\ actions = <<BreakProhibited, BreakMandatory>>

\* C12: with two or more spaces between a character and the next one, the
\* action at that next character and the 'before' class left after it are
\* those of the same input with exactly one space there.
C12_FurtherSpaces ==
    \A j \in 1..Len(runes) : \A i \in (j + 3)..Len(runes) :
        ( /\ calls = i
          /\ ReadClass(j) # ClassSP
          /\ \A m \in (j + 1)..(i - 1) : ReadClass(m) = ClassSP
          /\ ReadClass(i) # ClassSP )
        => LET one == Alone(Resolver, Table,
                            SubSeq(runes, 1, j + 1) \o <<runes[i]>>, j + 2)
           IN /\ ret.action = one.action
              /\ prevClass = one.prevClass

C12_Witness ==
    /\ InputClasses = <<ClassAL, ClassSP, ClassSP, ClassAL>>
    /\ calls = 4
    /\ branch = "table"
    /\ ret.action = BreakProhibited
    /\ prevClass = ClassAL

\* C13: the errors returned and stored are nil or io.EOF only, the cursor
\* stays within 0..len(runes), and the stored error is non-nil only when
\* the cursor is at len(runes).
C13_OnlyEndOfInput ==
    /\ ret.err \in {NIL, EOF}
    /\ err \in {NIL, EOF}
    /\ pos >= 0
    /\ pos <= Len(runes)
    /\ err # NIL => pos = Len(runes)

C13_Witness ==
    /\ Len(runes) = 3
    /\ pos = 3
    /\ err = EOF
    /\ ret.err = EOF

\* C14: the default resolver turns AI, SG and XX into AL, CJ into NS, SA
\* into CM for a mark (Mn, Mc) and AL otherwise, CB into ID, and returns
\* every other class unchanged; it never returns AI, SG, XX, CJ, SA or CB.
C14_ResolverLB1 ==
    \A i \in 1..Len(resolved) :
        LET raw == Class(runes[i])
            cls == resolved[i]
        IN /\ raw \in {ClassAI, ClassSG, ClassXX} => cls = ClassAL
           /\ raw = ClassCJ => cls = ClassNS
           /\ raw = ClassSA => cls = (IF IsMark(runes[i]) THEN ClassCM ELSE ClassAL)
           /\ raw = ClassCB => cls = ClassID
           /\ raw \notin {ClassAI, ClassSG, ClassXX, ClassCJ, ClassSA, ClassCB} => cls = raw
           /\ cls \notin {ClassAI, ClassSG, ClassXX, ClassCJ, ClassSA, ClassCB}

C14_Witness ==
    /\ Len(resolved) = 2
    /\ runes = <<Rune(ClassSA, TRUE), Rune(ClassSA, FALSE)>>
    /\ resolved = <<ClassCM, ClassAL>>

\* each scanner is where the same number of calls leaves it when it runs alone
AsAlone ==
    LET a == Alone(Resolver, Table, runes, calls)
        b == Alone(Resolver, Table, other.runes, other.calls)
    IN /\ <<pos, prevClass, err>> = <<a.spos, a.prevClass, a.serr>>
       /\ calls > 0 => ret = [pos |-> a.pos, action |-> a.action, err |-> a.err]
       /\ <<other.pos, other.prevClass, other.err>> = <<b.spos, b.prevClass, b.serr>>
       /\ other.calls > 0 =>
             other.ret = [pos |-> b.pos, action |-> b.action, err |-> b.err]

\* C15: two scanners that share the table and the resolver and whose calls
\* of Next interleave in any order each return what they return alone,
\* and no call writes the table, the resolver or either input.
C15_Interleaving ==
    /\ []AsAlone
    /\ [][ /\ Table' = Table
           /\ Resolver' = Resolver
           /\ runes' = runes
           /\ other'.runes = other.runes ]_vars

\* both scanners have read a hard break and a letter, the second one first
C15_Witness ==
    /\ InputClasses = <<ClassBK, ClassAL>>
    /\ other.runes = <<Rune(ClassAL, FALSE), Rune(ClassSP, FALSE)>>
    /\ calls = 2
    /\ other.calls = 3
    /\ ret.action = BreakDirect
    /\ other.ret.err = EOF

\* C19: a hard break affects only the position right after it; for LF,
\* letter, letter Next reports BreakProhibited at position 2, as it does
\* between the two letters alone.
C19_HardBreakIsLocal ==
    (InputClasses = <<ClassLF, ClassAL, ClassAL>> /\ calls >= 3) =>
        /\ actions[3] = BreakProhibited
        /\ actions[3] = Alone(Resolver, Table, SubSeq(runes, 2, 3), 2).action

\* C20: a call that reads a character after a hard break leaves 'before'
\* unchanged; once 'before' is BK it stays BK, and while it is CR it changes
\* only on reading LF.
C20_GuardKeepsBefore ==
    [][ /\ AfterHardBreak => prevClass' = prevClass
        /\ (pos > 0 /\ prevClass = ClassBK) => prevClass' = ClassBK
        /\ (pos > 0 /\ prevClass = ClassCR /\ prevClass' # ClassCR) =>
              (pos < Len(runes) /\ ReadClass(pos + 1) = ClassLF) ]_vars

C20_Witness ==
    /\ InputClasses = <<ClassAL, ClassCR, ClassAL, ClassAL>>
    /\ calls = 4
    /\ branch = "guard"
    /\ prevClass = ClassCR

\* message i (from 1) of the MO file in stream, as its tables name it
FileMessage(i) ==
    LET r == init(stream, ReadMo(stream))
        id == readMessage(stream, r, r.header.IdTableOffset + (i - 1) * 8)
        str == readMessage(stream, r, r.header.StrTableOffset + (i - 1) * 8)
    IN splitMessage(id.b.b, str.b.b)

\* the stream is a MO file whose header is accepted and whose tables name
\* bytes inside the file
WellFormed ==
    LET r == init(stream, ReadMo(stream)) IN
    /\ r.err = NIL
    /\ \A i \in 0..(r.header.MsgCount - 1) :
          /\ readMessage(stream, r, r.header.IdTableOffset + i * 8).err = NIL
          /\ readMessage(stream, r, r.header.StrTableOffset + i * 8).err = NIL

MsgCount == init(stream, ReadMo(stream)).header.MsgCount

\* C16: after WriteMo(w, c.Iter()) and ReadMo of the bytes written into a
\* new catalog, the new catalog has the keys of c and, under every key, a
\* message with the same context, msgid, plural msgid, singular translation
\* and plural translations as the message c holds, and Singular gives the
\* same answer on both catalogs.
C16_MoRoundTrip ==
    ~catalog2.nil =>
        /\ catalog2.err = NIL
        /\ DOMAIN catalog2.c.msgs = DOMAIN catalog.msgs
        /\ \A k \in DOMAIN catalog.msgs :
              LET m == catalog.msgs[k]
                  n == catalog2.c.msgs[k]
              IN /\ n.Ctxt = m.Ctxt
                 /\ n.Id = m.Id
                 /\ n.IdPlural = m.IdPlural
                 /\ n.Str.b = m.Str.b
                 /\ k # <<>> => n.Str = m.Str
                 /\ n.StrPlural = m.StrPlural
        /\ \A k \in AskedKeys \cup DOMAIN catalog.msgs :
              Singular(catalog2.c, k) = Singular(catalog, k)

\* a message with a context and a plural message have made the round trip
C16_Witness ==
    /\ ~catalog2.nil
    /\ DOMAIN catalog.msgs = {<<97>>, <<98, 4, 97>>}
    /\ DOMAIN catalog2.c.msgs = {<<97>>, <<98, 4, 97>>}
    /\ catalog2.c.msgs[<<97>>].IdPlural = Slice(<<98>>)
    /\ catalog2.c.msgs[<<97>>].StrPlural = Slice(<< <<120>>, <<121>> >>)
    /\ catalog2.c.msgs[<<98, 4, 97>>].Ctxt = Slice(<<98>>)
    /\ catalog2.c.msgs[<<98, 4, 97>>].Str = Slice(<<121>>)

\* C17: Singular(key) without arguments returns the stored singular string
\* when the catalog holds a message under the key with a non-nil singular
\* string, and the key when the key is absent or the message has none; the
\* call does not modify the catalog.
C17_Singular ==
    [][ (answer' # answer /\ answer'.call = "Singular") =>
          /\ catalog' = catalog
          /\ LET k == answer'.key IN
              IF k \in DOMAIN catalog.msgs /\ ~catalog.msgs[k].Str.nil
              THEN answer'.text = catalog.msgs[k].Str.b
              ELSE answer'.text = k ]_vars

\* Singular("a") answered "x" from a catalog that holds "a" and the header
C17_Witness ==
    /\ answer.call = "Singular"
    /\ answer.key = <<97>>
    /\ answer.text = <<120>>
    /\ DOMAIN catalog.msgs = {<<>>, <<97>>}

\* C18: on a well-formed MO stream a moReader returns exactly Size()
\* messages, in file order, and then io.EOF; the iterator of a catalog that
\* is not modified during the iteration returns exactly Size() messages and
\* then io.EOF on every further call.
C18_IteratorContract ==
    /\ WellFormed =>
          /\ read.size \in {-1, MsgCount}
          /\ Len(read.msgs) <= MsgCount
          /\ \A i \in 1..Len(read.msgs) : read.msgs[i] = FileMessage(i)
          /\ read.ret.err \in {NIL, EOF}
          /\ read.ret.err = EOF => Len(read.msgs) = MsgCount
          /\ moReaderNext(stream, reader).err =
                (IF Len(read.msgs) < MsgCount THEN NIL ELSE EOF)
    /\ (iterator.on /\ catalog.keys = iterated.keys) =>
          /\ iterated.size \in {-1, Len(catalog.keys)}
          /\ Len(iterated.msgs) <= Len(catalog.keys)
          /\ iterated.ret.err \in {NIL, EOF}
          /\ iterated.ret.err = EOF => Len(iterated.msgs) = Len(catalog.keys)
          /\ \A x \in catalogIteratorNext(catalog, iterator) :
                x.err = (IF Len(iterated.msgs) < Len(catalog.keys) THEN NIL ELSE EOF)

\* both iterators have returned their two messages and then io.EOF
C18_Witness ==
    /\ WellFormed
    /\ MsgCount = 2
    /\ read.size = 2
    /\ Len(read.msgs) = 2
    /\ read.ret.err = EOF
    /\ iterator.on
    /\ iterated.size = 2
    /\ Len(iterated.msgs) = 2
    /\ iterated.ret.err = EOF

(* C21: a call of Next that is not the first, not at the end of input, not
   stopped by the guard after a hard break, and whose current class is none
   of BK, LF, CR, SP, returns the resolution of a = Table.Action(before,
   current) and saves the current class as the reference transition says:
   Indirect and CombiningIndirect stay only when before is SP and become
   Prohibited otherwise, CombiningProhibited becomes Prohibited, the other
   actions pass through; before is kept for CombiningIndirect when before is
   not SP and for CombiningProhibited when before is SP *)
Current == IF ReadClass(pos + 1) = ClassNL THEN ClassBK ELSE ReadClass(pos + 1)

ReachesTable ==
    /\ pos > 0
    /\ pos < Len(runes)
    /\ err = NIL
    /\ ~(prevClass = ClassBK \/ (prevClass = ClassCR /\ Current # ClassLF))
    /\ Current \notin {ClassBK, ClassLF, ClassCR, ClassSP}

Reference(a, before, current) ==
    CASE a = BreakIndirect ->
            [action |-> IF before = ClassSP THEN BreakIndirect ELSE BreakProhibited,
             before |-> current]
      [] a = BreakCombiningIndirect ->
            IF before = ClassSP
            THEN [action |-> BreakCombiningIndirect, before |-> current]
            ELSE [action |-> BreakProhibited, before |-> before]
      [] a = BreakCombiningProhibited ->
            [action |-> BreakProhibited,
             before |-> IF before = ClassSP THEN before ELSE current]
      [] OTHER -> [action |-> a, before |-> current]

C21_ReferenceTransition ==
    [][ReachesTable =>
        LET x == Reference(Action(Rows(Table), prevClass, Current), prevClass, Current)
        IN /\ ret' = [pos |-> pos, action |-> x.action, err |-> NIL]
           /\ prevClass' = x.before
           /\ pos' = pos + 1
           /\ err' = NIL]_vars

\* a supplied table answered CombiningIndirect and the 'before' class was kept
C21_Witness ==
    /\ Table # DefaultTable
    /\ Resolver = "Class"
    /\ lookup.action = BreakCombiningIndirect
    /\ lookup.before = ClassCL
    /\ lookup.after = ClassOP
    /\ prevClass = ClassCL
    /\ ret.action = BreakProhibited
    /\ calls = 3

(* C22: a call of Next that is not the first and not stopped by the guard
   after a hard break, and that reads a code point of class SP, returns
   BreakProhibited, leaves the 'before' class as it was and changes nothing
   of the scanner but the cursor, which moves by one *)
HardBreakBefore == prevClass = ClassBK \/ (prevClass = ClassCR /\ Current # ClassLF)

C22_SpaceKeepsBefore ==
    [][(pos > 0 /\ pos < Len(runes) /\ err = NIL /\ Current = ClassSP /\ ~HardBreakBefore) =>
        /\ ret' = [pos |-> pos, action |-> BreakProhibited, err |-> NIL]
        /\ prevClass' = prevClass
        /\ pos' = pos + 1
        /\ err' = err
        /\ runes' = runes
        /\ Table' = Table
        /\ Resolver' = Resolver]_vars

\* the space between two letters was read: AL is still the 'before' class
C22_Witness ==
    /\ Len(runes) = 3
    /\ InputClasses = <<ClassAL, ClassSP, ClassAL>>
    /\ pos = 2
    /\ branch = "space"
    /\ prevClass = ClassAL
    /\ ret = [pos |-> 1, action |-> BreakProhibited, err |-> NIL]

(* C23: the scanner is exhausted from the first call of Next that returns
   io.EOF on: the stored error is io.EOF exactly when a call has returned
   it, and a call on an exhausted scanner returns io.EOF again and changes
   neither the cursor, nor the 'before' class, nor the stored error, nor
   the input, so the scanner never starts again *)
C23_ExhaustedIsSticky ==
    /\ [](ret.err = EOF <=> err = EOF)
    /\ [][err = EOF =>
            /\ ret'.err = EOF
            /\ pos' = pos
            /\ prevClass' = prevClass
            /\ err' = EOF
            /\ runes' = runes]_vars

\* a second call after the end of "ab"
C23_Witness ==
    /\ InputClasses = <<ClassAL, ClassAL>>
    /\ calls = 4
    /\ err = EOF
    /\ pos = 2
    /\ prevClass = ClassAL
    /\ ret = Terminal

(* C24: whatever the input, the resolver and the table, the 'before' class
   of a scanner is never SP, and no call of Next returns BreakIndirect,
   BreakCombiningIndirect or BreakCombiningProhibited *)
C24_BeforeIsNeverSpace ==
    /\ prevClass # ClassSP
    /\ lookup.before # ClassSP
    /\ ret.action \notin {BreakIndirect, BreakCombiningIndirect, BreakCombiningProhibited}

\* the table answered Indirect for the pair around a space
C24_Witness ==
    /\ InputClasses = <<ClassCL, ClassSP, ClassOP>>
    /\ calls = 3
    /\ lookup = [before |-> ClassCL, after |-> ClassOP, action |-> BreakIndirect]
    /\ ret.action = BreakProhibited
    /\ prevClass = ClassOP

(* C25: the default table has 29 rows of 29 entries, none of them
   BreakMandatory, and with it and the default resolver a call of Next
   returns BreakMandatory exactly when it returns io.EOF *)
C25_MandatoryOnlyAtEnd ==
    IF calls = 0
    THEN /\ Len(pairTable) = pairTableSize
         /\ \A i \in 1..pairTableSize :
                /\ Len(pairTable[i]) = pairTableSize
                /\ \A j \in 1..pairTableSize : pairTable[i][j] # BreakMandatory
    ELSE ret.action = BreakMandatory <=> ret.err = EOF

\* the end of "\na": the calls before it returned Prohibited and Direct
C25_Witness ==
    /\ InputClasses = <<ClassLF, ClassAL>>
    /\ actions = <<BreakProhibited, BreakDirect, BreakMandatory>>
    /\ ret = Terminal
    /\ nils = 2

(* C26: with the default resolver and the default table, both classes of
   every pair Next looks up in the table are among the 29 classes of the
   table (never BK, CR, LF, NL, SP or a class LB1 resolves away), so the
   action is the entry of the table and not the fallback of Action *)
Paired == ClassOP..ClassRI

C26_LookupsInRange ==
    lookup # NoLookup =>
        /\ lookup.before \in Paired
        /\ lookup.after \in Paired
        /\ lookup.action = pairTable[lookup.before + 1][lookup.after + 1]

\* a contingent break opportunity followed by an unknown code point: the
\* pair looked up is (ID, AL)
C26_Witness ==
    /\ InputClasses = <<ClassCB, ClassXX>>
    /\ calls = 2
    /\ lookup.before = ClassID
    /\ lookup.after = ClassAL
    /\ branch = "table"

(* C27: NL acts like BK: with any of the NL code points of the input
   replaced by BK code points, at the first position or later, the same
   calls of Next return the same position, action and error and leave the
   same cursor, 'before' class and stored error *)
NextLines == {i \in 1..Len(runes) : Class(runes[i]) = ClassNL}
AsBK(S) == [i \in 1..Len(runes) |-> IF i \in S THEN Rune(ClassBK, FALSE) ELSE runes[i]]

C27_NextLineIsBreak ==
    \A S \in SUBSET NextLines :
        LET a == Alone(Resolver, Table, AsBK(S), calls) IN
        /\ a.spos = pos
        /\ a.serr = err
        /\ a.prevClass = prevClass
        /\ ret = [pos |-> a.pos, action |-> a.action, err |-> a.err]

\* a next-line code point between two letters, and the call after it
C27_Witness ==
    /\ InputClasses = <<ClassAL, ClassNL, ClassAL>>
    /\ calls = 3
    /\ branch = "guard"
    /\ prevClass = ClassBK
    /\ ret = [pos |-> 2, action |-> BreakDirect, err |-> NIL]

(* C28: the start of text is the first code point only. After the first
   call a first SP is remembered as WJ and a first LF as BK. At any later
   position that the guard after a hard break lets through, a SP is the
   space of the rules of Next (Prohibited, no lookup in the table, 'before'
   kept) and a LF is a line feed (after CR it passes the guard, which BK
   does not, and gives Prohibited with BK as the 'before' class) *)
C28_StartOfTextOnlyFirst ==
    /\ [](calls = 1 /\ ret.err = NIL =>
            /\ ReadClass(1) = ClassSP => prevClass = ClassWJ
            /\ ReadClass(1) = ClassLF => prevClass = ClassBK)
    /\ [][(pos > 0 /\ pos < Len(runes) /\ err = NIL) =>
            /\ (ReadClass(pos + 1) = ClassSP /\ prevClass \notin {ClassBK, ClassCR}) =>
                    /\ ret'.action = BreakProhibited
                    /\ lookup' = NoLookup
                    /\ prevClass' = prevClass
            /\ (ReadClass(pos + 1) = ClassLF /\ prevClass # ClassBK) =>
                    /\ ret'.action = BreakProhibited
                    /\ lookup' = NoLookup
                    /\ prevClass' = ClassBK]_vars

\* two spaces: the first is remembered as WJ, the second is a space
C28_Witness ==
    /\ InputClasses = <<ClassSP, ClassSP>>
    /\ calls = 2
    /\ prevClass = ClassWJ
    /\ lookup = NoLookup
    /\ ret = [pos |-> 1, action |-> BreakProhibited, err |-> NIL]

(* C29: when the header of the MO file cannot be accepted (no byte order
   for the magic number, a major revision other than 0 and 1, or a header
   that cannot be read), Catalog.ReadMo returns an error that is not nil and
   adds no message to the catalog *)
HeaderRefused == readHeader(stream, ReadMo(stream)).err # NIL

C29_ReadMoReportsHeader ==
    (answer.call = "ReadMo" /\ HeaderRefused) =>
        /\ answer.err # NIL
        /\ catalog.msgs = EmptyMap
        /\ catalog.keys = <<>>

(* C30: after any calls of setMessage and ReadMo the key list of a catalog
   holds the keys of its message map, each of them once; a message, once
   stored, stays as it is under its key; and setMessage of a message whose
   key is stored already returns an error and leaves the map, the key list
   and the header as they were *)
KeysAreTheMap ==
    /\ Len(catalog.keys) = Cardinality(DOMAIN catalog.msgs)
    /\ {catalog.keys[i] : i \in 1..Len(catalog.keys)} = DOMAIN catalog.msgs

C30_KeysAndFirstMessage ==
    /\ []KeysAreTheMap
    /\ [][/\ \A k \in DOMAIN catalog.msgs :
                k \in DOMAIN catalog'.msgs /\ catalog'.msgs[k] = catalog.msgs[k]
           /\ (/\ answer'.call = "setMessage"
               /\ answer'.err # "Invalid msgid."
               /\ answer'.key \in DOMAIN catalog.msgs) =>
                    /\ answer'.err = "Message key already exists"
                    /\ catalog' = catalog]_vars

\* "a" was read from the file as "x"; setMessage of "a" as "z" was refused
C30_Witness ==
    /\ answer = [call |-> "setMessage", key |-> <<97>>, text |-> <<>>,
                 err |-> "Message key already exists"]
    /\ <<97>> \in DOMAIN catalog.msgs
    /\ catalog.msgs[<<97>>].Str = Slice(<<120>>)
    /\ Len(catalog.keys) = 2

(* C31: as long as the catalog has the keys it had when Iter returned, they
   are the keys of the stored messages in strictly ascending order, byte by
   byte, and the i-th message the iterator has returned is the message
   stored under the i-th key; when the iterator has returned io.EOF it has
   returned every message *)
Ascending(a, b) ==
    \E i \in 1..Len(b) :
        /\ i <= Len(a) + 1
        /\ \A j \in 1..(i - 1) : a[j] = b[j]
        /\ i <= Len(a) => a[i] < b[i]

C31_IterInKeyOrder ==
    (iterator.on /\ catalog.keys = iterated.keys) =>
        /\ \A i \in 1..(Len(catalog.keys) - 1) :
              Ascending(catalog.keys[i], catalog.keys[i + 1])
        /\ {catalog.keys[i] : i \in 1..Len(catalog.keys)} = DOMAIN catalog.msgs
        /\ Len(iterated.msgs) = iterator.pos
        /\ Len(iterated.msgs) <= Len(catalog.keys)
        /\ \A i \in 1..Len(iterated.msgs) :
              /\ key(iterated.msgs[i].Ctxt, iterated.msgs[i].Id).key = catalog.keys[i]
              /\ iterated.msgs[i] = catalog.msgs[catalog.keys[i]]
        /\ iterated.ret.err = EOF => Len(iterated.msgs) = Len(catalog.keys)

\* the file holds "a" in the context "b" before "a"; the iterator returned
\* "a" first, then "b\x04a", then io.EOF
C31_Witness ==
    /\ WellFormed
    /\ MsgCount = 2
    /\ FileMessage(1).Ctxt = Slice(<<98>>)
    /\ iterator.on
    /\ catalog.keys = <<<<97>>, <<98, 4, 97>>>>
    /\ Len(iterated.msgs) = 2
    /\ iterated.msgs[1].Ctxt = NilSlice
    /\ iterated.msgs[2].Ctxt = Slice(<<98>>)
    /\ iterated.ret.err = EOF

(* C32: once Next of a moReader has returned an error (of the header, of a
   read, or io.EOF), the reader keeps it: every later call of Next returns
   the same error and no message, and the reader, its offset in the stream
   included, stays as it is; when the header was refused, Size returns 0
   and the error Next returns is the error of the header *)
C32_ReaderErrorIsSticky ==
    /\ [](read.ret.err # NIL =>
            /\ read.ret.msg = NoMessage
            /\ reader.err = read.ret.err
            /\ moReaderNext(stream, reader) =
                   [reader |-> reader, msg |-> NoMessage, err |-> read.ret.err])
    /\ [](HeaderRefused =>
            /\ read.size \in {-1, 0}
            /\ Size(stream, reader).size = 0
            /\ read.msgs = <<>>
            /\ moReaderNext(stream, reader).err = readHeader(stream, ReadMo(stream)).err)
    /\ [][read.ret.err # NIL =>
            /\ reader' = reader
            /\ read'.ret = read.ret
            /\ read'.msgs = read.msgs]_vars

\* the second msgstr of the cut file could not be read, after "a" was
\* returned; the reader stands where the read failed
C32_Witness ==
    /\ stream = CutStream
    /\ Len(read.msgs) = 1
    /\ read.ret = [msg |-> NoMessage, err |-> "ErrUnexpectedEOF"]
    /\ reader.err = "ErrUnexpectedEOF"
    /\ reader.pos = 1
    /\ read.size = 2

====
